---- MODULE Spec2Model ----
(***************************************************************************)
(* Model of the partitioned image-processing consumer                      *)
(* (ImageProcessingConsumer) and of the outcome of the pipeline it calls   *)
(* (ProcessImageFromEventUseCase.execute).                                 *)
(*                                                                         *)
(* A handler run is cut at its suspension points (the awaits of            *)
(* #handleReceivedMessage): each action below is one synchronous segment   *)
(* of the handler, run to its next await or to its end.                    *)
(*                                                                         *)
(* Four specifications share the variables: Spec (the consumer with a       *)
(* producer), SpecBacklog (the consumer started on two queued jobs),       *)
(* SpecPipeline (one call of execute followed stage by stage under         *)
(* withTimeout, up to the consumer's classification of its error) and      *)
(* SpecShutdown (the consumer with the signal handlers of index.js).       *)
(*                                                                         *)
(* Optional JavaScript values (a header that may be undefined) are sets:   *)
(* {} is undefined, {v} is the value v.                                    *)
(***************************************************************************)
EXTENDS Integers, Sequences, FiniteSets, TLC

\* ---------------------------------------------------------------- bounds
\* number of messages the external producer puts on the bus
MaxJobs == 1
\* number of deliveries the broker makes in one behaviour
MaxDeliveries == 2

\* ------------------------------------------------------ program constants
MAX_RETRIES == 3
PrefetchCount == 1
Partitions == {0, 1, 2}
FALLBACK_DELAY == 30000

VARIABLES
    queues,     \* queues[p]: messages ready in image.processing.partition.<p>
    runs,       \* runs[d]: the handler run of delivery tag d
    results,    \* events that reached the fan-out exchange image.results
    dropped,    \* republished messages no queue binding matched
    produced,   \* number of messages the producer has published
    pipeline,   \* one call of execute: processImagePipeline under withTimeout
    worker,     \* the process: its signal handlers and its channel
    backoff     \* the environment of the process and one call of #calculateBackoff

vars == <<queues, runs, results, dropped, produced, pipeline, worker, backoff>>

\* ------------------------------------------------------------ JS helpers
Undefined == {}
Some(v) == {v}
ValueOf(opt) == CHOOSE v \in opt : TRUE

\* `${x}` of a partition header: a number prints as its digits, undefined as
\* the word "undefined"
TemplateString(opt) ==
    IF opt = Undefined THEN "undefined"
    ELSE <<"0", "1", "2">>[ValueOf(opt) + 1]

\* the markers of the code that occur inside one piece of message text
MarkersIn(tok) ==
    IF tok = "RATE_LIMIT_EXCEEDED" THEN {"RATE_LIMIT_EXCEEDED", "RATE_LIMIT"}
    ELSE IF tok = "429 Too Many Requests" THEN {"429 Too Many Requests", "429"}
    ELSE {tok}

\* String.prototype.includes on a message given as its pieces of text
includes(message, s) == \E i \in DOMAIN message : s \in MarkersIn(message[i])

\* ---------------------------------------------------------------- errors
NewError(message) ==
    [name |-> "Error", message |-> message, code |-> "", retryable |-> "unset"]

NoError == [name |-> "", message |-> <<>>, code |-> "", retryable |-> "unset"]

\* JSON.parse of a payload that is not JSON
SyntaxError ==
    [name |-> "SyntaxError", message |-> <<"Unexpected token">>,
     code |-> "", retryable |-> "unset"]

\* payload.imageId when the event has no payload
TypeError ==
    [name |-> "TypeError", message |-> <<"Cannot read properties of undefined">>,
     code |-> "", retryable |-> "unset"]

\* withTimeout: the timer rejects with new Error(errorMessage)
withTimeoutError == NewError(<<"PROCESSING_TIMEOUT">>)

\* downloadImageFromUrl wraps the fetch error
downloadError(inner) == NewError(<<"Failed to ", "download", " image: ">> \o inner)

\* GeminiService.processImage wraps every fault
geminiError(inner) == NewError(<<"GEMINI_TIMEOUT", ": ">> \o inner)

\* CloudinaryService.uploadImage rejects with the backend's error as it is
cloudinaryError(inner) == NewError(inner)

\* what the pipeline (processImagePipeline under withTimeout) can settle with
PipelineErrors ==
    { downloadError(<<"Request failed with status code 404">>),
      downloadError(<<"connect ", "ECONNREFUSED">>),
      geminiError(<<"429 Too Many Requests">>),
      cloudinaryError(<<"Upload failed">>),
      withTimeoutError }

\* the catch block of ProcessImageFromEventUseCase.execute
execute_catch(error) ==
    IF error.message = <<"PROCESSING_TIMEOUT">>
    THEN [error EXCEPT !.retryable = "false"]
    ELSE error


\* ------------------------------------------------- consumer: classification
\* retryableErrors (the list inside #isRetryableError)
retryableErrors ==
    {"ECONNREFUSED", "ETIMEDOUT", "RATE_LIMIT_EXCEEDED",
     "CLOUDINARY_TIMEOUT", "GEMINI_TIMEOUT", "PROCESSING_TIMEOUT"}

isRetryableError(error) ==
    \E code \in retryableErrors : includes(error.message, code) \/ error.code = code

determineErrorCode(error) ==
    IF includes(error.message, "PROCESSING_TIMEOUT") THEN "PROCESSING_TIMEOUT"
    ELSE IF includes(error.message, "Gemini") THEN "GEMINI_API_ERROR"
    ELSE IF includes(error.message, "Cloudinary") THEN "CLOUDINARY_ERROR"
    ELSE IF includes(error.message, "download") THEN "IMAGE_DOWNLOAD_ERROR"
    ELSE IF includes(error.message, "timeout") THEN "TIMEOUT_ERROR"
    ELSE IF includes(error.message, "rate limit") THEN "RATE_LIMIT_ERROR"
    ELSE "UNKNOWN_ERROR"

\* process.env of a worker started with none of the retry variables set
DefaultEnv ==
    [MAX_RETRIES |-> Undefined, RETRY_DELAY_1 |-> Undefined,
     RETRY_DELAY_2 |-> Undefined, RETRY_DELAY_3 |-> Undefined,
     PROCESSING_TIMEOUT_MS |-> Undefined]

\* no call of #calculateBackoff followed on its own
NoBackoff == [env |-> DefaultEnv, retryCount |-> Undefined, delay |-> Undefined]

\* parseInt(process.env.X, 10) || fallback: NaN and 0 give the fallback
parseIntOr(value, fallback) ==
    IF value = Undefined \/ ValueOf(value) = 0 THEN fallback ELSE ValueOf(value)

\* the retry section of the configuration module
config_retry ==
    [maxRetries |-> parseIntOr(backoff.env.MAX_RETRIES, 3),
     delays |-> <<parseIntOr(backoff.env.RETRY_DELAY_1, 5000),
                  parseIntOr(backoff.env.RETRY_DELAY_2, 15000),
                  parseIntOr(backoff.env.RETRY_DELAY_3, 30000)>>]

\* object.name || fallback: a property the object does not have is undefined
propertyOr(object, name, fallback) ==
    IF name \in DOMAIN object /\ object[name] # 0 THEN object[name] ELSE fallback

\* delays taken from the configured list
delays_configured == config_retry.delays

\* delays of #calculateBackoff (config.retry.delay1..3 with their defaults)
delays ==
    <<propertyOr(config_retry, "delay1", 5000),
      propertyOr(config_retry, "delay2", 15000),
      propertyOr(config_retry, "delay3", FALLBACK_DELAY)>>

\* calculateBackoff without `|| 30000`: undefined (0 here) past the end
calculateBackoff_noFallback(retryCount) ==
    IF retryCount + 1 \in DOMAIN delays THEN delays[retryCount + 1] ELSE 0

\* delays[retryCount] || 30000 (JavaScript arrays are 0-based)
calculateBackoff(retryCount) ==
    IF retryCount + 1 \in DOMAIN delays /\ delays[retryCount + 1] # 0
    THEN delays[retryCount + 1]
    ELSE FALLBACK_DELAY

\* message.properties.headers?.['x-retry-count'] || 0
readRetryCount(msg) ==
    IF msg.xretry = Undefined \/ ValueOf(msg.xretry) = 0 THEN 0
    ELSE ValueOf(msg.xretry)

\* message.properties.headers?.['x-partition']
readPartition(msg) == msg.xpart

\* shouldRetry with the cap included in the retry branch
shouldRetry_inclusive(error, retryCount) ==
    isRetryableError(error) /\ retryCount <= MAX_RETRIES

\* the condition of the retry branch of the catch block
shouldRetry(error, retryCount) ==
    isRetryableError(error) /\ retryCount < MAX_RETRIES

\* nextRetryCount without the increment
nextRetryCount_same(retryCount) == retryCount

\* the retry count handed to #requeueWithDelay
nextRetryCount(retryCount) == retryCount + 1

\* ------------------------------------------------------------ bus topology
\* routingKey of #requeueWithDelay
requeueRoutingKey(partition) ==
    <<"image.uploaded.partition.", TemplateString(partition)>>

\* queue image.processing.partition.<p> is bound to the ingress exchange with
\* image.uploaded.partition.<p> (the topology is declared outside the consumer)
bindingKey(p) == <<"image.uploaded.partition.", TemplateString(Some(p))>>

\* the queues a routing key reaches on the topic exchange
routedTo(rk) == {p \in Partitions : bindingKey(p) = rk}

\* ------------------------------------------------------- handler run state
Op(op, arg, ok) == [op |-> op, arg |-> arg, ok |-> ok]

ackOp == Op("ack", "", TRUE)
\* channel.nack(message, false, false): allUpTo = false, requeue = false
nackOp == Op("nack", "requeue=false", TRUE)
emitOp(eventType, ok) == Op("emit", eventType, ok)
republishOp(ok) == Op("republish", "", ok)

NoMessage == {}

\* the payload.imageId the handler reads from a decoded event
imageIdOf(msg) == IF msg.body = "valid" THEN Some(msg.job) ELSE Undefined

\* a handler run at its first await or at its end (lines 100-142, and the
\* catch block when the synchronous prefix already threw)
StartRun(p, msg) ==
    LET retryCount == readRetryCount(msg)
        partition == readPartition(msg)
        base == [queue |-> p, msg |-> msg, retryCount |-> retryCount,
                 partition |-> partition, executed |-> FALSE,
                 error |-> NoError, delay |-> 0, republished |-> NoMessage,
                 emitted |-> <<>>, log |-> <<>>, pc |-> "executing"]
    IN  CASE msg.body = "valid" ->
               [base EXCEPT !.executed = TRUE]
          [] msg.body = "nopayload" ->
               \* TypeError at payload.imageId; parsedEvent = event; the
               \* error is classified and the run goes on in the catch block
               IF shouldRetry(TypeError, retryCount)
               THEN [base EXCEPT !.error = TypeError, !.pc = "backoff",
                                 !.delay = calculateBackoff(retryCount)]
               ELSE [base EXCEPT !.error = TypeError, !.pc = "publishing_failed"]
          [] OTHER ->
               \* JSON.parse throws; the catch block calls JSON.parse again,
               \* which throws out of the handler
               [base EXCEPT !.error = SyntaxError, !.pc = "rejected"]

Settled(r) == \E i \in DOMAIN r.log : r.log[i].op \in {"ack", "nack"}

\* Unacked with the delivery given back while its handler awaits the backoff
Unacked_backoffReleased(p) ==
    {d \in DOMAIN runs :
        runs[d].queue = p /\ ~Settled(runs[d]) /\ runs[d].pc # "backoff"}

\* deliveries of queue p the broker still holds unacknowledged
Unacked(p) == {d \in DOMAIN runs : runs[d].queue = p /\ ~Settled(runs[d])}

\* deliveryAllowed with no prefetch limit on the channel
deliveryAllowed_noPrefetch(p) == TRUE

\* channel.prefetch(prefetchCount) before each consume with noAck: false: the
\* broker holds back queue p while its consumer has prefetchCount
\* unacknowledged deliveries
deliveryAllowed(p) == Cardinality(Unacked(p)) < PrefetchCount

\* no call of execute is followed stage by stage
NoPipeline == [stage |-> "none"]

\* the process after startWorker: consumers registered, no signal received
WorkerRunning ==
    [phase |-> "running", signal |-> "none", runsAtSignal |-> 0,
     attempts |-> 1, retries |-> 0, connected |-> TRUE, started |-> TRUE,
     waited |-> FALSE, closed |-> <<>>,
     unhandled |-> {}, fatal |-> FALSE, exitCode |-> Undefined]

\* ---------------------------------------------------------------- actions
\* x-retry-count as the producer (or an earlier republish) may have set it
Headers == {Undefined} \cup {Some(n) : n \in {MAX_RETRIES - 1, MAX_RETRIES, MAX_RETRIES + 1}}
Bodies == {"valid", "nopayload", "malformed"}

Init ==
    /\ queues = [p \in Partitions |-> <<>>]
    /\ runs = <<>>
    /\ results = {}
    /\ dropped = {}
    /\ produced = 0
    /\ pipeline = NoPipeline
    /\ worker = WorkerRunning
    /\ backoff = NoBackoff

\* the external producer publishes a job to partition p; the partitions are
\* interchangeable, so the n-th job goes to one of the first n partitions
Produce(p, xretry, hasPartition, body) ==
    /\ produced < MaxJobs
    /\ p <= produced
    /\ produced' = produced + 1
    /\ queues' = [queues EXCEPT ![p] = Append(@,
                    [job |-> produced + 1, xretry |-> xretry,
                     xpart |-> IF hasPartition THEN Some(p) ELSE Undefined,
                     body |-> body])]
    /\ UNCHANGED <<runs, results, dropped, pipeline, worker, backoff>>

\* the broker delivers the head of queue p; the handler runs to its first await
Deliver(p) ==
    /\ queues[p] # <<>>
    /\ Len(runs) < MaxDeliveries
    /\ deliveryAllowed(p)
    /\ runs' = Append(runs, StartRun(p, Head(queues[p])))
    /\ queues' = [queues EXCEPT ![p] = Tail(@)]
    /\ UNCHANGED <<results, dropped, produced, pipeline, worker, backoff>>

\* processImageUseCase.execute settles; the handler runs to its next await
ExecuteSettle(d, succeeded, pipelineError) ==
    /\ runs[d].pc = "executing"
    /\ LET r == runs[d]
           error == execute_catch(pipelineError)
       IN  runs' = [runs EXCEPT ![d] =
             IF succeeded THEN [r EXCEPT !.pc = "publishing_processed"]
             ELSE IF shouldRetry(error, r.retryCount)
             THEN [r EXCEPT !.error = error, !.pc = "backoff",
                            !.delay = calculateBackoff(r.retryCount)]
             ELSE [r EXCEPT !.error = error, !.pc = "publishing_failed"]]
    /\ UNCHANGED <<queues, results, dropped, produced, pipeline, worker, backoff>>

\* the event #publishEvent builds for a run
outcomeEvent(d, eventType) ==
    LET r == runs[d]
    IN  IF eventType = "ImageProcessed"
        THEN [delivery |-> d, eventType |-> eventType, imageId |-> imageIdOf(r.msg),
              errorCode |-> "", retryCount |-> Undefined]
        ELSE [delivery |-> d, eventType |-> eventType, imageId |-> imageIdOf(r.msg),
              errorCode |-> determineErrorCode(r.error),
              retryCount |-> Some(r.retryCount)]

\* successOps with the ack issued before the event
successOps_ackFirst(ok) == <<ackOp, emitOp("ImageProcessed", ok)>>

\* successOps with the publish error thrown on to the caller: no ack follows
successOps_rethrow(ok) ==
    IF ok THEN <<emitOp("ImageProcessed", TRUE), ackOp>>
    ELSE <<emitOp("ImageProcessed", FALSE)>>

\* the rest of the try block once the pipeline has returned: publish
\* ImageProcessed (ok: whether the publish went through), then ack
successOps(ok) == <<emitOp("ImageProcessed", ok), ackOp>>

\* deadLetterOps with the nack issued before the event
deadLetterOps_nackFirst(ok) == <<nackOp, emitOp("image.failed", ok)>>

\* the dead-letter branch of the catch block: publish image.failed, then nack
deadLetterOps(ok) == <<emitOp("image.failed", ok), nackOp>>

\* the events among a list of operations
emitsOf(d, ops) ==
    LET emits == SelectSeq(ops, LAMBDA o : o.op = "emit")
    IN  [i \in DOMAIN emits |-> outcomeEvent(d, emits[i].arg)]

\* the events among a list of operations that reached the exchange
publishedOf(d, ops) ==
    {outcomeEvent(d, ops[i].arg) : i \in {j \in DOMAIN ops : ops[j].op = "emit" /\ ops[j].ok}}

\* #publishEvent settles (assertExchange resolved, or rejected and swallowed);
\* the handler goes on to its ack or nack and ends
PublishEventSettle(d, ok) ==
    /\ runs[d].pc \in {"publishing_processed", "publishing_failed"}
    /\ LET r == runs[d]
           ops == IF r.pc = "publishing_processed"
                  THEN successOps(ok) ELSE deadLetterOps(ok)
       IN  /\ runs' = [runs EXCEPT ![d] =
                 [r EXCEPT !.pc = "done", !.log = r.log \o ops,
                           !.emitted = r.emitted \o emitsOf(d, ops)]]
           /\ results' = results \cup publishedOf(d, ops)
    /\ UNCHANGED <<queues, dropped, produced, pipeline, worker, backoff>>

\* the message #requeueWithDelay publishes
requeueMessage(r) ==
    [job |-> r.msg.job, xretry |-> Some(nextRetryCount(r.retryCount)),
     xpart |-> r.partition, body |-> r.msg.body]

\* requeueSettle swallowing the publish error
requeueSettle_swallow(ok) == "requeued"

\* how the promise of #requeueWithDelay settles: resolve() after the publish,
\* reject(error) when the publish threw
requeueSettle(ok) == IF ok THEN "requeued" ELSE "rejected"

\* the timer of #requeueWithDelay fires: publish, then resolve or reject
RequeueTimerFire(d, ok) ==
    /\ runs[d].pc = "backoff"
    /\ LET r == runs[d]
           m == requeueMessage(r)
           rk == requeueRoutingKey(r.partition)
       IN  IF ok
           THEN /\ runs' = [runs EXCEPT ![d] =
                     [r EXCEPT !.pc = requeueSettle(TRUE),
                               !.log = Append(r.log, republishOp(TRUE)),
                               !.republished = Some([routingKey |-> rk, msg |-> m])]]
                /\ queues' = [p \in Partitions |->
                     IF p \in routedTo(rk) THEN Append(queues[p], m) ELSE queues[p]]
                /\ dropped' = IF routedTo(rk) = {} THEN dropped \cup {d} ELSE dropped
           ELSE /\ runs' = [runs EXCEPT ![d] =
                     [r EXCEPT !.pc = requeueSettle(FALSE),
                               !.log = Append(r.log, republishOp(FALSE))]]
                /\ UNCHANGED <<queues, dropped>>
    /\ UNCHANGED <<results, produced, pipeline, worker, backoff>>

\* #requeueWithDelay resolved: the handler acks the original and ends
AckOriginal(d) ==
    /\ runs[d].pc = "requeued"
    /\ runs' = [runs EXCEPT ![d] =
          [@ EXCEPT !.pc = "done", !.log = Append(@, ackOp)]]
    /\ UNCHANGED <<queues, results, dropped, produced, pipeline, worker, backoff>>

Next ==
    \/ \E p \in Partitions, xretry \in Headers, hasPartition \in BOOLEAN, body \in Bodies :
          Produce(p, xretry, hasPartition, body)
    \/ \E p \in Partitions : Deliver(p)
    \/ \E d \in DOMAIN runs, succeeded \in BOOLEAN, e \in PipelineErrors :
          ExecuteSettle(d, succeeded, e)
    \/ \E d \in DOMAIN runs, ok \in BOOLEAN : PublishEventSettle(d, ok)
    \/ \E d \in DOMAIN runs, ok \in BOOLEAN : RequeueTimerFire(d, ok)
    \/ \E d \in DOMAIN runs : AckOriginal(d)

Spec == Init /\ [][Next]_vars

\* ------------------------------------------- consumer started on a backlog
\* two jobs are queued when start() registers the consumers: the first on
\* partition 0, the second behind it or on partition 1
Backlog(xretry, body, p2) ==
    LET first == [job |-> 1, xretry |-> xretry, xpart |-> Some(0), body |-> body]
        second == [job |-> 2, xretry |-> Undefined, xpart |-> Some(p2),
                   body |-> "valid"]
    IN  [p \in Partitions |->
            IF p = 0 THEN (IF p2 = 0 THEN <<first, second>> ELSE <<first>>)
            ELSE IF p = p2 THEN <<second>> ELSE <<>>]

InitBacklog ==
    /\ \E xretry \in {Undefined, Some(MAX_RETRIES)}, body \in {"valid", "malformed"},
          p2 \in {0, 1} : queues = Backlog(xretry, body, p2)
    /\ runs = <<>>
    /\ results = {}
    /\ dropped = {}
    /\ produced = 2
    /\ pipeline = NoPipeline
    /\ worker = WorkerRunning
    /\ backoff = NoBackoff

NextBacklog ==
    \/ \E p \in Partitions : Deliver(p)
    \/ \E d \in DOMAIN runs, succeeded \in BOOLEAN, e \in PipelineErrors :
          ExecuteSettle(d, succeeded, e)
    \/ \E d \in DOMAIN runs, ok \in BOOLEAN : PublishEventSettle(d, ok)
    \/ \E d \in DOMAIN runs, ok \in BOOLEAN : RequeueTimerFire(d, ok)
    \/ \E d \in DOMAIN runs : AckOriginal(d)

SpecBacklog == InitBacklog /\ [][NextBacklog]_vars

\* ------------------------------------ one call of execute, stage by stage
\* MAX_RETRIES of the retry loop around geminiService.processImage
MAX_RETRIES_gemini == 5

\* x-retry-count values the delivery being processed may carry
RetryCounts == 0..(MAX_RETRIES + 1)

\* what the three backend calls can fail with
DownloadFaults ==
    { NewError(<<"Request failed with status code 404">>),
      NewError(<<"connect ", "ECONNREFUSED">>) }

GeminiFaults ==
    { NewError(<<"Gemini", " model not initialized.">>),
      NewError(<<"429 Too Many Requests">>),
      NewError(<<"RESOURCE_EXHAUSTED">>),
      NewError(<<"RATE_LIMIT_EXCEEDED">>),
      NewError(<<"rate limit", " reached">>) }

CloudinaryFaults == {NewError(<<"Upload failed">>)}

StageFaults(stage) ==
    CASE stage = "download" -> DownloadFaults
      [] stage = "gemini" -> GeminiFaults
      [] OTHER -> CloudinaryFaults

\* isRateLimit in the catch block of GeminiService.processImage
isRateLimit(error) ==
    \/ includes(error.message, "RATE_LIMIT")
    \/ includes(error.message, "RESOURCE_EXHAUSTED")
    \/ includes(error.message, "429")
    \/ error.code = "RATE_LIMIT_EXCEEDED"
    \/ error.code = "RESOURCE_EXHAUSTED"

\* the catch block of GeminiService.processImage: the caught error is marked
\* when it is a rate limit, and a new error is thrown in its place
processImage_catch(error) ==
    LET marked == IF isRateLimit(error)
                  THEN [error EXCEPT !.retryable = "true",
                                     !.code = "RATE_LIMIT_EXCEEDED"]
                  ELSE error
    IN  geminiError(marked.message)

\* geminiRetry with the retryable flag of the error ignored
geminiRetry_anyFault(error, retryCount) == retryCount < MAX_RETRIES_gemini

\* the condition of the retry branch of the loop around processImage
geminiRetry(error, retryCount) ==
    error.retryable = "true" /\ retryCount < MAX_RETRIES_gemini

Event(ev, arg) == [ev |-> ev, arg |-> arg]

Pending == [outcome |-> "pending", error |-> NoError]

\* raceSettle with a later settlement replacing the first
raceSettle_lastWins(race, settled) == settled

\* Promise.race in withTimeout: the first of the two promises to settle
\* settles the race, a later settlement is ignored
raceSettle(race, settled) ==
    IF race.outcome = "pending" THEN settled ELSE race

\* what Date.now() - start can give for a stage, in ms
Durations == {0, 1}

\* the phases object execute hands to the pipeline: {}
NoPhases == [download |-> Undefined, gemini |-> Undefined, cloudinary |-> Undefined]

\* recordTiming building a new phases object with the one timing
recordTiming_replace(phases, phase, ms) ==
    [p \in DOMAIN phases |-> IF p = phase THEN Some(ms) ELSE Undefined]

\* phases.<phase> = Date.now() - <phase>Start
recordTiming(phases, phase, ms) == [phases EXCEPT ![phase] = Some(ms)]

\* !x of a timing: undefined and 0 are falsy
falsy(timing) == timing = Undefined \/ ValueOf(timing) = 0

detectFailurePhase(phases) ==
    IF falsy(phases.download) THEN "download"
    ELSE IF falsy(phases.gemini) THEN "gemini"
    ELSE IF falsy(phases.cloudinary) THEN "cloudinary"
    ELSE "unknown"

\* processImage_result with an empty buffer when no image came back
processImage_result_empty(hasImage, imageBuffer) ==
    IF hasImage THEN "processed" ELSE ""

\* what GeminiService.processImage returns: the image of the response, or
\* the buffer it was given when the response has no image
processImage_result(hasImage, imageBuffer) ==
    IF hasImage THEN "processed" ELSE imageBuffer

\* what CloudinaryService.uploadImage resolves with
uploadResult ==
    [secure_url |-> "https://res.cloudinary.com/processed.jpg",
     url |-> "http://res.cloudinary.com/processed.jpg"]

\* processingTime without the upload
processingTime_noUpload(phases) ==
    ValueOf(phases.download) + ValueOf(phases.gemini)

\* processingTime of the value the pipeline returns
processingTime(phases) ==
    ValueOf(phases.download) + ValueOf(phases.gemini) + ValueOf(phases.cloudinary)

\* execute has called processImagePipeline, which runs to its first await
\* (the download), and withTimeout has armed its timer
StartPipeline(retryCount) ==
    [retryCount |-> retryCount, stage |-> "download", attempts |-> 0,
     failedStage |-> "", fault |-> NoError, thrown |-> NoError,
     timer |-> "armed", race |-> Pending,
     events |-> <<Event("start", "download")>>,
     phases |-> NoPhases, timings |-> <<>>, sleeps |-> <<>>,
     clock |-> 0, since |-> 0,
     imageBuffer |-> "", geminiResult |-> "", processedBuffer |-> Undefined,
     uploaded |-> Undefined, result |-> Undefined,
     handler |-> "awaiting", error |-> NoError,
     failurePhase |-> "", phasesAtCatch |-> NoPhases,
     classified |-> FALSE, retryable |-> FALSE, route |-> "", errorCode |-> ""]

pipelineStart(pl, stage) ==
    [pl EXCEPT !.stage = stage, !.events = Append(@, Event("start", stage))]

\* the awaited call of the current stage returned after ms: its timing is
\* recorded
pipelineTiming(pl, ms) ==
    [pl EXCEPT !.phases = recordTiming(@, pl.stage, ms),
               !.timings = Append(@, [phase |-> pl.stage, ms |-> ms])]

pipelineReturn(pl) ==
    [pl EXCEPT !.stage = "returned",
               !.result = Some([processedUrl |-> uploadResult.secure_url,
                                processingTime |-> processingTime(pl.phases)]),
               !.events = Append(@, Event("returned", "")),
               !.race = raceSettle(@, [outcome |-> "result", error |-> NoError])]

pipelineThrow(pl, fault, error) ==
    [pl EXCEPT !.stage = "thrown", !.failedStage = pl.stage,
               !.fault = fault, !.thrown = error,
               !.events = Append(@, Event("thrown", pl.stage)),
               !.race = raceSettle(@, [outcome |-> "error", error |-> error])]

\* retryAfter growing by one second per retry
retryAfter_linear(retryCount) == retryCount * 1000

\* retryAfter of the loop around processImage, in ms
retryAfter(retryCount) == (2 ^ retryCount) * 1000

\* the loop around processImage after the call settled: the result is kept
\* and the upload starts, or the catch block sleeps before the next attempt,
\* or it rethrows the error
geminiSettle(pl, ok, fault, error, ms, hasImage) ==
    IF ok
    THEN LET processedBuffer == processImage_result(hasImage, pl.imageBuffer)
         IN  pipelineStart(
               [pipelineTiming(pl, ms) EXCEPT
                   !.geminiResult = IF hasImage THEN "image" ELSE "noimage",
                   !.processedBuffer = Some(processedBuffer),
                   !.uploaded = Some(processedBuffer)],
               "cloudinary")
    ELSE LET caught == [pl EXCEPT
                          !.events = Append(@, Event("fault", error.retryable))]
         IN  IF geminiRetry(error, pl.attempts)
             THEN [caught EXCEPT
                     !.attempts = @ + 1, !.stage = "sleep",
                     !.sleeps = Append(@, retryAfter(pl.attempts + 1)),
                     !.events = Append(@, Event("sleep", ""))]
             ELSE pipelineThrow(caught, fault, error)

\* processImagePipeline from the await that just settled to its next await,
\* its return or its throw
processImagePipeline(pl, ok, fault, ms, hasImage) ==
    CASE pl.stage = "download" ->
           IF ok
           THEN pipelineStart(
                  [pipelineTiming(pl, ms) EXCEPT !.imageBuffer = "original"],
                  "gemini")
           ELSE pipelineThrow(pl, fault, downloadError(fault.message))
      [] pl.stage = "gemini" ->
           geminiSettle(pl, ok, fault, processImage_catch(fault), ms, hasImage)
      [] OTHER ->
           IF ok THEN pipelineReturn(pipelineTiming(pl, ms))
           ELSE pipelineThrow(pl, fault, cloudinaryError(fault.message))

consumerIdle ==
    /\ queues = [p \in Partitions |-> <<>>]
    /\ runs = <<>>
    /\ results = {}
    /\ dropped = {}
    /\ produced = 0

InitPipeline ==
    /\ consumerIdle
    /\ \E retryCount \in RetryCounts : pipeline = StartPipeline(retryCount)
    /\ worker = WorkerRunning
    /\ backoff = NoBackoff

\* the backend call the pipeline awaits settles; the pipeline goes on whether
\* or not the timer has fired
StageSettle(ok, fault, ms, hasImage) ==
    /\ pipeline.stage \in {"download", "gemini", "cloudinary"}
    /\ fault \in StageFaults(pipeline.stage)
    /\ pipeline' = processImagePipeline(pipeline, ok, fault, ms, hasImage)
    /\ UNCHANGED <<queues, runs, results, dropped, produced, worker, backoff>>

\* the timer of withTimeout fires (nothing clears it): it rejects with
\* new Error(errorMessage)
timerFired(pl) ==
    [pl EXCEPT
       !.timer = "fired",
       !.events = Append(@, Event("timer", "")),
       !.race = raceSettle(@, [outcome |-> "timeout", error |-> withTimeoutError])]

TimerFire ==
    /\ pipeline.timer = "armed"
    /\ pipeline' = timerFired(pipeline)
    /\ UNCHANGED <<queues, runs, results, dropped, produced, worker, backoff>>

\* execute resumes after `await withTimeout(...)`: it returns the result (the
\* handler goes on to publish ImageProcessed), or its catch block reads the
\* failure phase and rethrows the error
ExecuteResume ==
    /\ pipeline.handler = "awaiting"
    /\ pipeline.race.outcome # "pending"
    /\ pipeline' =
          IF pipeline.race.outcome = "result"
          THEN [pipeline EXCEPT
                  !.handler = "returned", !.route = "ImageProcessed",
                  !.events = Append(@, Event("surfaced", "result"))]
          ELSE [pipeline EXCEPT
                  !.handler = "caught",
                  !.failurePhase = detectFailurePhase(pipeline.phases),
                  !.phasesAtCatch = pipeline.phases,
                  !.error = execute_catch(pipeline.race.error),
                  !.events = Append(@, Event("surfaced", pipeline.race.outcome))]
    /\ UNCHANGED <<queues, runs, results, dropped, produced, worker, backoff>>

\* the catch block of the consumer's handler classifies the error
Classify ==
    /\ pipeline.handler = "caught"
    /\ ~pipeline.classified
    /\ LET error == pipeline.error
           retry == shouldRetry(error, pipeline.retryCount)
       IN  pipeline' = [pipeline EXCEPT
              !.classified = TRUE,
              !.retryable = isRetryableError(error),
              !.route = IF retry THEN "republish" ELSE "dead-letter",
              !.errorCode = IF retry THEN "" ELSE determineErrorCode(error)]
    /\ UNCHANGED <<queues, runs, results, dropped, produced, worker, backoff>>

NextPipeline ==
    \/ \E ok \in BOOLEAN, fault \in DownloadFaults \cup GeminiFaults \cup CloudinaryFaults,
          ms \in Durations, hasImage \in BOOLEAN :
          StageSettle(ok, fault, ms, hasImage)
    \/ TimerFire
    \/ ExecuteResume
    \/ Classify

SpecPipeline == InitPipeline /\ [][NextPipeline]_vars

\* ------------------------------------------------------- #calculateBackoff
\* what a retry variable of process.env can hold: nothing, or a number
EnvValues == {Undefined, Some(0), Some(1000), Some(60000)}

Envs ==
    [MAX_RETRIES : {Undefined, Some(5)}, RETRY_DELAY_1 : EnvValues,
     RETRY_DELAY_2 : EnvValues, RETRY_DELAY_3 : EnvValues,
     PROCESSING_TIMEOUT_MS : {Undefined}]

\* the x-retry-count a failed delivery can carry when the handler computes
\* the delay: below #MAX_RETRIES, which MAX_RETRIES = 5 raises to 5
BackoffRetryCounts == 0..4

\* a worker started with env, whose handler is about to compute the delay
\* for a delivery with retryCount
InitBackoff ==
    /\ consumerIdle
    /\ pipeline = NoPipeline
    /\ worker = WorkerRunning
    /\ \E env \in Envs, retryCount \in BackoffRetryCounts :
          /\ retryCount < parseIntOr(env.MAX_RETRIES, 3)
          /\ backoff = [env |-> env, retryCount |-> Some(retryCount),
                        delay |-> Undefined]

\* const delay = this.#calculateBackoff(retryCount)
CalculateBackoff ==
    /\ backoff.retryCount # Undefined
    /\ backoff.delay = Undefined
    /\ backoff' = [backoff EXCEPT
          !.delay = Some(calculateBackoff(ValueOf(backoff.retryCount)))]
    /\ UNCHANGED <<queues, runs, results, dropped, produced, pipeline, worker>>

NextBackoff == CalculateBackoff

SpecBackoff == InitBackoff /\ [][NextBackoff]_vars

\* ------------------------------------------- the loop around processImage
\* processImagePipeline with any geminiService behind
\* this.geminiService.processImage: what it throws may carry retryable
PortErrors ==
    { [geminiError(<<"fault">>) EXCEPT !.retryable = retryable] :
        retryable \in {"unset", "true"} }

\* the download has returned and the first processImage call is awaited
InitRetryLoop ==
    /\ consumerIdle
    /\ \E ms \in Durations :
          pipeline = pipelineStart(
                       [pipelineTiming(StartPipeline(0), ms) EXCEPT
                          !.imageBuffer = "original"],
                       "gemini")
    /\ worker = WorkerRunning
    /\ backoff = NoBackoff

\* the awaited processImage call settles
PortSettle(ok, error, ms, hasImage) ==
    /\ pipeline.stage = "gemini"
    /\ pipeline' = geminiSettle(pipeline, ok, error, error, ms, hasImage)
    /\ UNCHANGED <<queues, runs, results, dropped, produced, worker, backoff>>

\* the timer of this.sleep(retryAfter) fires: the loop calls processImage again
SleepTimerFire ==
    /\ pipeline.stage = "sleep"
    /\ pipeline' = pipelineStart(pipeline, "gemini")
    /\ UNCHANGED <<queues, runs, results, dropped, produced, worker, backoff>>

NextRetryLoop ==
    \/ \E ok \in BOOLEAN, error \in PortErrors, ms \in Durations, hasImage \in BOOLEAN :
          PortSettle(ok, error, ms, hasImage)
    \/ SleepTimerFire
    \/ \E ok \in BOOLEAN, fault \in CloudinaryFaults, ms \in Durations :
          pipeline.stage = "cloudinary" /\ StageSettle(ok, fault, ms, TRUE)
    \/ TimerFire
    \/ ExecuteResume

SpecRetryLoop == InitRetryLoop /\ [][NextRetryLoop]_vars

\* ------------------------------------------------- execute under the clock
\* the processing section of the configuration module
config_processing ==
    [timeoutMs |-> parseIntOr(backoff.env.PROCESSING_TIMEOUT_MS, 60000)]

\* this.PROCESSING_TIMEOUT of the use case
PROCESSING_TIMEOUT == propertyOr(config_processing, "timeoutMs", 60000)

\* how long a backend call can take, in ms
CallDurations == {0, 1000, 60000}

DeadlineEnvs ==
    { [DefaultEnv EXCEPT !.PROCESSING_TIMEOUT_MS = timeoutMs] :
        timeoutMs \in {Undefined, Some(0), Some(1000)} }

\* execute has just called withTimeout; pipeline.clock is the time in ms
\* since then and pipeline.since the time at which the pipeline began the
\* await it is in
InitDeadline ==
    /\ consumerIdle
    /\ \E env \in DeadlineEnvs : backoff = [NoBackoff EXCEPT !.env = env]
    /\ pipeline = StartPipeline(0)
    /\ worker = WorkerRunning

\* the await the pipeline is in can settle after d ms: not before a step
\* already taken, and not after the deadline while its timer is armed
\* (either order when both fall in the same millisecond)
Completes(d) ==
    /\ pipeline.since + d >= pipeline.clock
    /\ pipeline.timer = "armed" => pipeline.since + d <= PROCESSING_TIMEOUT

\* the pipeline took a step at time t and began its next await
At(pl, t) == [pl EXCEPT !.clock = t, !.since = t]

\* the download or the upload settles d ms after it was called
DeadlineStageSettle(ok, fault, d) ==
    /\ pipeline.stage \in {"download", "cloudinary"}
    /\ fault \in StageFaults(pipeline.stage)
    /\ Completes(d)
    /\ pipeline' = At(processImagePipeline(pipeline, ok, fault, d, TRUE),
                      pipeline.since + d)
    /\ UNCHANGED <<queues, runs, results, dropped, produced, worker, backoff>>

\* the processImage call settles d ms after it was called
DeadlinePortSettle(ok, error, d, hasImage) ==
    /\ pipeline.stage = "gemini"
    /\ Completes(d)
    /\ pipeline' = At(geminiSettle(pipeline, ok, error, error, d, hasImage),
                      pipeline.since + d)
    /\ UNCHANGED <<queues, runs, results, dropped, produced, worker, backoff>>

\* the timer of this.sleep(retryAfter) fires retryAfter ms after the sleep
\* began
DeadlineSleepTimerFire ==
    /\ pipeline.stage = "sleep"
    /\ LET d == pipeline.sleeps[Len(pipeline.sleeps)]
       IN  /\ Completes(d)
           /\ pipeline' = At(pipelineStart(pipeline, "gemini"), pipeline.since + d)
    /\ UNCHANGED <<queues, runs, results, dropped, produced, worker, backoff>>

\* the timer of withTimeout fires PROCESSING_TIMEOUT ms after execute
\* called it, unless a sleep of the pipeline is due before
DeadlineTimerFire ==
    /\ pipeline.timer = "armed"
    /\ pipeline.clock <= PROCESSING_TIMEOUT
    /\ pipeline.stage = "sleep" =>
          PROCESSING_TIMEOUT <= pipeline.since + pipeline.sleeps[Len(pipeline.sleeps)]
    /\ pipeline' = [timerFired(pipeline) EXCEPT !.clock = PROCESSING_TIMEOUT]
    /\ UNCHANGED <<queues, runs, results, dropped, produced, worker, backoff>>

NextDeadline ==
    \/ \E ok \in BOOLEAN, fault \in DownloadFaults \cup CloudinaryFaults,
          d \in CallDurations : DeadlineStageSettle(ok, fault, d)
    \/ \E ok \in BOOLEAN, error \in PortErrors, d \in CallDurations :
          DeadlinePortSettle(ok, error, d, TRUE)
    \/ DeadlineSleepTimerFire
    \/ DeadlineTimerFire
    \/ ExecuteResume

SpecDeadline == InitDeadline /\ [][NextDeadline]_vars

\* ----------------------------------------------------- signals and shutdown
\* the channel is open and the three consumers are registered on it
ChannelOpen == worker.phase \in {"running", "grace"}

\* a signal handler starts; the first signal is remembered together with the
\* number of deliveries made before it
signalReceived(w, signal) ==
    IF w.signal = "none"
    THEN [w EXCEPT !.signal = signal, !.runsAtSignal = Len(runs)]
    ELSE w

\* ImageProcessingConsumer.stop: it logs and returns, the consumers stay
\* registered
stop(w) == w

\* rabbitmqService.close: channel.close() is issued
close(w) == [w EXCEPT !.phase = "closing"]

\* SIGTERM: the handler starts its 5 s wait
Sigterm ==
    /\ worker.phase = "running"
    /\ worker' = [signalReceived(worker, "SIGTERM") EXCEPT !.phase = "grace"]
    /\ UNCHANGED <<queues, runs, results, dropped, produced, pipeline, backoff>>

\* the wait of the SIGTERM handler is over: stop(), then close()
GraceTimerFire ==
    /\ worker.phase = "grace"
    /\ worker' = close(stop([worker EXCEPT !.waited = TRUE]))
    /\ UNCHANGED <<queues, runs, results, dropped, produced, pipeline, backoff>>

\* SIGINT: stop(), then close(), with no wait
Sigint ==
    /\ ChannelOpen
    /\ worker' = close(stop(signalReceived(worker, "SIGINT")))
    /\ UNCHANGED <<queues, runs, results, dropped, produced, pipeline, backoff>>

\* process.exit(code)
exit(w, code) == [w EXCEPT !.phase = "exited", !.exitCode = Some(code)]

\* close() has closed the channel, then the connection: process.exit(0)
CloseSettle ==
    /\ worker.phase = "closing"
    /\ worker' = exit([worker EXCEPT !.closed = <<"channel", "connection">>], 0)
    /\ UNCHANGED <<queues, runs, results, dropped, produced, pipeline, backoff>>

\* the consumer runs as long as the channel is open (the steps of a handler
\* on a channel that is closing are not followed here)
NextShutdown ==
    \/ Sigterm
    \/ GraceTimerFire
    \/ Sigint
    \/ CloseSettle
    \/ ChannelOpen /\ \E p \in Partitions : Deliver(p)
    \/ ChannelOpen /\ \E d \in DOMAIN runs, succeeded \in BOOLEAN, e \in PipelineErrors :
          ExecuteSettle(d, succeeded, e)
    \/ ChannelOpen /\ \E d \in DOMAIN runs, ok \in BOOLEAN : PublishEventSettle(d, ok)
    \/ ChannelOpen /\ \E d \in DOMAIN runs, ok \in BOOLEAN : RequeueTimerFire(d, ok)
    \/ ChannelOpen /\ \E d \in DOMAIN runs : AckOriginal(d)

SpecShutdown == InitBacklog /\ [][NextShutdown]_vars

\* ------------------------------------------ a handler on a closing channel
\* what a channel operation throws once channel.close() has been issued
IllegalOperationError ==
    [name |-> "IllegalOperationError", message |-> <<"Channel closing">>,
     code |-> "", retryable |-> "unset"]

\* a channel call that threw
throwOp(call) == Op("throw", call, FALSE)

\* #publishEvent settles on a channel that is closing, before the process
\* exits: assertExchange rejected and #publishEvent swallowed it. On the
\* success path channel.ack then throws inside the try block, the catch
\* block classifies that error and awaits #publishEvent('image.failed'); on
\* the dead-letter path channel.nack throws out of the handler
PublishEventSettleClosing(d) ==
    /\ worker.phase = "closing"
    /\ runs[d].pc \in {"publishing_processed", "publishing_failed"}
    /\ LET r == runs[d]
       IN  runs' = [runs EXCEPT ![d] =
             IF r.pc = "publishing_processed"
             THEN LET emitted == [r EXCEPT
                        !.log = r.log \o <<emitOp("ImageProcessed", FALSE), throwOp("ack")>>,
                        !.emitted = r.emitted \o
                                      emitsOf(d, <<emitOp("ImageProcessed", FALSE)>>),
                        !.error = IllegalOperationError]
                  IN  IF shouldRetry(IllegalOperationError, r.retryCount)
                      THEN [emitted EXCEPT !.pc = "backoff",
                                           !.delay = calculateBackoff(r.retryCount)]
                      ELSE [emitted EXCEPT !.pc = "publishing_failed"]
             ELSE [r EXCEPT
                     !.log = r.log \o <<emitOp("image.failed", FALSE), throwOp("nack")>>,
                     !.emitted = r.emitted \o
                                   emitsOf(d, <<emitOp("image.failed", FALSE)>>),
                     !.pc = "rejected"]]
    /\ UNCHANGED <<queues, results, dropped, produced, pipeline, worker, backoff>>

NextClosing ==
    \/ Sigint
    \/ CloseSettle
    \/ ChannelOpen /\ \E p \in Partitions : Deliver(p)
    \/ ChannelOpen /\ \E d \in DOMAIN runs, succeeded \in BOOLEAN, e \in PipelineErrors :
          ExecuteSettle(d, succeeded, e)
    \/ ChannelOpen /\ \E d \in DOMAIN runs, ok \in BOOLEAN : PublishEventSettle(d, ok)
    \/ \E d \in DOMAIN runs : PublishEventSettleClosing(d)

SpecClosing == InitBacklog /\ [][NextClosing]_vars

\* ------------------------------------------- startup and process-level faults
\* this.maxRetries of RabbitMQService
maxRetries == 3

\* the process at the call of startWorker: connect() is at its first attempt
WorkerStarting ==
    [WorkerRunning EXCEPT !.phase = "connecting", !.attempts = 0,
                          !.connected = FALSE, !.started = FALSE]

\* connectRetries with one attempt more than maxRetries
connectRetries_offByOne(retries) == retries <= maxRetries

\* the condition of the loop of connect, and of the retry in its catch block
connectRetries(retries) == retries < maxRetries

\* the catch block of startWorker
startWorker_catch(w) == exit([w EXCEPT !.fatal = TRUE], 1)

\* one attempt of connect settles (amqp.connect, createChannel and the
\* topology setup as one call); after the last failed attempt connect throws
\* and startWorker exits
connectSettled(w, ok) ==
    LET tried == [w EXCEPT !.attempts = @ + 1]
        failed == [tried EXCEPT !.retries = @ + 1]
    IN  IF ok THEN [tried EXCEPT !.connected = TRUE, !.phase = "starting"]
        ELSE IF connectRetries(failed.retries)
        THEN [failed EXCEPT !.phase = "retry_wait"]
        ELSE startWorker_catch(failed)

InitStartup ==
    /\ \E xretry \in {Undefined, Some(MAX_RETRIES)}, body \in {"valid", "malformed"},
          p2 \in {0, 1} : queues = Backlog(xretry, body, p2)
    /\ runs = <<>>
    /\ results = {}
    /\ dropped = {}
    /\ produced = 2
    /\ pipeline = NoPipeline
    /\ worker = WorkerStarting
    /\ backoff = NoBackoff

ConnectSettle(ok) ==
    /\ worker.phase = "connecting"
    /\ worker' = connectSettled(worker, ok)
    /\ UNCHANGED <<queues, runs, results, dropped, produced, pipeline, backoff>>

\* the retryDelay wait of connect is over: the loop makes its next attempt
ConnectRetryTimerFire ==
    /\ worker.phase = "retry_wait"
    /\ connectRetries(worker.retries)
    /\ worker' = [worker EXCEPT !.phase = "connecting"]
    /\ UNCHANGED <<queues, runs, results, dropped, produced, pipeline, backoff>>

\* imageProcessingConsumer.start() settles: the consumers are registered, or
\* startWorker exits
ConsumerStartSettle(ok) ==
    /\ worker.phase = "starting"
    /\ worker' = IF ok THEN [worker EXCEPT !.phase = "running", !.started = TRUE]
                 ELSE startWorker_catch(worker)
    /\ UNCHANGED <<queues, runs, results, dropped, produced, pipeline, backoff>>

\* process.on('unhandledRejection'): the rejection of a handler's promise is
\* logged
UnhandledRejection(d) ==
    /\ worker.phase # "exited"
    /\ runs[d].pc = "rejected"
    /\ d \notin worker.unhandled
    /\ worker' = [worker EXCEPT !.unhandled = @ \cup {d}]
    /\ UNCHANGED <<queues, runs, results, dropped, produced, pipeline, backoff>>

\* process.on('uncaughtException'): an error thrown out of a callback (the
\* channel emits 'error' and connect registered a listener on the connection
\* only) is logged fatal and the process exits
UncaughtException ==
    /\ ChannelOpen
    /\ worker' = exit([worker EXCEPT !.fatal = TRUE], 1)
    /\ UNCHANGED <<queues, runs, results, dropped, produced, pipeline, backoff>>

NextStartup ==
    \/ \E ok \in BOOLEAN : ConnectSettle(ok)
    \/ ConnectRetryTimerFire
    \/ \E ok \in BOOLEAN : ConsumerStartSettle(ok)
    \/ \E d \in DOMAIN runs : UnhandledRejection(d)
    \/ UncaughtException
    \/ ChannelOpen /\ \E p \in Partitions : Deliver(p)
    \/ ChannelOpen /\ \E d \in DOMAIN runs, succeeded \in BOOLEAN, e \in PipelineErrors :
          ExecuteSettle(d, succeeded, e)
    \/ ChannelOpen /\ \E d \in DOMAIN runs, ok \in BOOLEAN : PublishEventSettle(d, ok)
    \/ ChannelOpen /\ \E d \in DOMAIN runs, ok \in BOOLEAN : RequeueTimerFire(d, ok)
    \/ ChannelOpen /\ \E d \in DOMAIN runs : AckOriginal(d)

SpecStartup == InitStartup /\ [][NextStartup]_vars


\* ------------------------------------------------------ reading a handler run
\* the handler has returned, or its promise has rejected (index.js only logs
\* an unhandled rejection: the process keeps running)
Finished(r) == r.pc \in {"done", "rejected"}

CountOp(r, op) == Cardinality({i \in DOMAIN r.log : r.log[i].op = op})

CountEmit(r, eventType) ==
    Cardinality({i \in DOMAIN r.log : r.log[i].op = "emit" /\ r.log[i].arg = eventType})

\* the payload decoded and the catch block classified an error
Failed(r) == r.msg.body # "malformed" /\ r.error # NoError

\* the classified error is retryable and the retry count is below the cap
OnRetryPath(r) ==
    Failed(r) /\ isRetryableError(r.error) /\ r.retryCount < MAX_RETRIES

\* the classified error is non-retryable, or the retries are exhausted
OnTerminalPath(r) ==
    Failed(r) /\ (~isRetryableError(r.error) \/ r.retryCount >= MAX_RETRIES)

\* the pipeline returned a result
Succeeded(r) == r.executed /\ r.error = NoError /\ r.pc # "executing"

\* ------------------------------------------------------------------ claims

\* C1: every handler run that ends has issued exactly one of ack and
\* nack(requeue=false), whatever path it took (decode failure, outcome
\* publish failure and republish failure included).
C1_ExactlyOneAckOrNack ==
    \A d \in DOMAIN runs :
        Finished(runs[d]) =>
            /\ CountOp(runs[d], "ack") + CountOp(runs[d], "nack") = 1
            /\ \A i \in DOMAIN runs[d].log :
                  runs[d].log[i].op = "nack" => runs[d].log[i] = nackOp

\* C2: on the retry path an ack of the original is always preceded by a
\* republish that went through (the republished message exists), and a run
\* whose republish publish call failed has no ack.
C2_RepublishBeforeAck ==
    \A d \in DOMAIN runs :
        LET r == runs[d]
        IN  OnRetryPath(r) =>
              /\ \A i \in DOMAIN r.log :
                    r.log[i].op = "ack" =>
                       /\ \E j \in 1..(i - 1) : r.log[j] = republishOp(TRUE)
                       /\ r.republished # NoMessage
              /\ (\E j \in DOMAIN r.log : r.log[j] = republishOp(FALSE)) =>
                    CountOp(r, "ack") = 0

C2_Witness ==
    \E d \in DOMAIN runs :
        /\ OnRetryPath(runs[d])
        /\ runs[d].log = <<republishOp(TRUE), ackOp>>

\* the ingress routing key of partition p
IngressRoutingKey(p) ==
    <<"image.uploaded.partition.", <<"0", "1", "2">>[p + 1]>>

\* C3: every republished message carries the received retry count plus one
\* and the received x-partition, and its routing key is the binding key of
\* the queue the original was consumed from, also when the original had no
\* x-partition header.
C3_RepublishKeepsPartition ==
    \A d \in DOMAIN runs :
        LET r == runs[d]
        IN  r.republished # NoMessage =>
              /\ ValueOf(r.republished).msg.xretry = Some(r.retryCount + 1)
              /\ ValueOf(r.republished).msg.xpart = r.msg.xpart
              /\ ValueOf(r.republished).routingKey = IngressRoutingKey(r.queue)

\* C4: a message that arrives with x-retry-count above MAX_RETRIES never has
\* the pipeline executed for it and ends dead-lettered (image.failed, nack).
C4_OverCapNotExecuted ==
    \A d \in DOMAIN runs :
        LET r == runs[d]
        IN  (r.msg.body = "valid" /\ r.retryCount > MAX_RETRIES) =>
              /\ ~r.executed
              /\ Finished(r) => \E ok \in BOOLEAN : r.log = deadLetterOps(ok)

\* C5: a run whose pipeline failed with a retryable error at retry count
\* MAX_RETRIES never republishes; when it ends it has handed one image.failed
\* event carrying that retry count to the outcome publisher and has nacked
\* with requeue=false, without any ack.
C5_BoundaryAtCap ==
    \A d \in DOMAIN runs :
        LET r == runs[d]
        IN  (r.executed /\ r.error # NoError /\ isRetryableError(r.error)
               /\ r.retryCount = MAX_RETRIES) =>
              /\ CountOp(r, "republish") = 0
              /\ r.republished = NoMessage
              /\ r.pc \notin {"backoff", "requeued", "rejected"}
              /\ Finished(r) =>
                    /\ CountOp(r, "nack") = 1 /\ CountOp(r, "ack") = 0
                    /\ r.log[Len(r.log)] = nackOp
                    /\ Len(r.emitted) = 1
                    /\ r.emitted[1].eventType = "image.failed"
                    /\ r.emitted[1].retryCount = Some(MAX_RETRIES)

C5_Witness ==
    \E d \in DOMAIN runs :
        /\ runs[d].executed /\ isRetryableError(runs[d].error)
        /\ runs[d].retryCount = MAX_RETRIES
        /\ runs[d].pc = "done"
        /\ \E e \in results : e.delivery = d /\ e.retryCount = Some(MAX_RETRIES)

\* C6: a run whose pipeline failed with a retryable error below the cap
\* never emits an outcome event and never nacks; the message it republishes
\* carries retryCount + 1; it ends acked right after the republish, and it
\* ends without an ack only when the republish publish call itself failed.
C6_RetryBelowCap ==
    \A d \in DOMAIN runs :
        LET r == runs[d]
        IN  (r.executed /\ r.error # NoError /\ isRetryableError(r.error)
               /\ r.retryCount < MAX_RETRIES) =>
              /\ CountOp(r, "emit") = 0 /\ r.emitted = <<>>
              /\ \A e \in results : e.delivery # d
              /\ CountOp(r, "nack") = 0
              /\ r.pc \notin {"publishing_processed", "publishing_failed"}
              /\ r.republished # NoMessage =>
                    ValueOf(r.republished).msg.xretry = Some(r.retryCount + 1)
              /\ r.pc = "done" =>
                    r.log = <<republishOp(TRUE), ackOp>> /\ r.republished # NoMessage
              /\ r.pc = "rejected" => r.log = <<republishOp(FALSE)>>

C6_Witness ==
    \E d \in DOMAIN runs :
        /\ runs[d].executed /\ isRetryableError(runs[d].error)
        /\ runs[d].retryCount < MAX_RETRIES
        /\ runs[d].pc = "done"
        /\ runs[d].republished # NoMessage

\* C7: a run whose pipeline hit the processing deadline is never republished,
\* whatever its retry count; it ends with image.failed carrying
\* PROCESSING_TIMEOUT and a nack.
C7_TimeoutNotRetried ==
    \A d \in DOMAIN runs :
        LET r == runs[d]
        IN  r.error.message = <<"PROCESSING_TIMEOUT">> =>
              /\ r.pc \notin {"backoff", "requeued"}
              /\ CountOp(r, "republish") = 0
              /\ Finished(r) =>
                    /\ \E ok \in BOOLEAN : r.log = deadLetterOps(ok)
                    /\ Len(r.emitted) = 1
                    /\ r.emitted[1].errorCode = "PROCESSING_TIMEOUT"

\* C8: a message whose payload is not valid JSON never has the pipeline run
\* and ends with image.failed (UNKNOWN_ERROR, no imageId) and a nack, with
\* nothing republished.
C8_MalformedGoesTerminal ==
    \A d \in DOMAIN runs :
        LET r == runs[d]
        IN  (r.msg.body = "malformed" /\ Finished(r)) =>
              /\ ~r.executed
              /\ CountOp(r, "republish") = 0
              /\ CountOp(r, "nack") = 1
              /\ Len(r.emitted) = 1
              /\ r.emitted[1].eventType = "image.failed"
              /\ r.emitted[1].errorCode = "UNKNOWN_ERROR"
              /\ r.emitted[1].imageId = Undefined

\* C9: a run whose pipeline succeeded never republishes and never emits
\* image.failed; when it ends it has emitted ImageProcessed and then acked,
\* in that order, and nothing else.
C9_SuccessEmitThenAck ==
    \A d \in DOMAIN runs :
        LET r == runs[d]
        IN  Succeeded(r) =>
              /\ CountOp(r, "republish") = 0 /\ r.republished = NoMessage
              /\ CountEmit(r, "image.failed") = 0
              /\ \A e \in results : e.delivery = d => e.eventType = "ImageProcessed"
              /\ CountOp(r, "nack") = 0
              /\ r.pc # "rejected"
              /\ Finished(r) =>
                    /\ Len(r.log) = 2
                    /\ r.log[1].op = "emit" /\ r.log[1].arg = "ImageProcessed"
                    /\ r.log[2] = ackOp

C9_Witness ==
    \E d \in DOMAIN runs :
        /\ Succeeded(runs[d]) /\ runs[d].pc = "done"
        /\ \E e \in results : e.delivery = d /\ e.eventType = "ImageProcessed"

PublishFailed(r) ==
    \E i \in DOMAIN r.log : r.log[i].op = "emit" /\ ~r.log[i].ok

\* C11: a run whose outcome event could not be published still ends, with
\* the same single ack (pipeline succeeded) or the same single
\* nack(requeue=false) (dead-letter branch) a run whose publish went through
\* issues; the event is not on image.results.
C11_PublishFailureSwallowed ==
    \A d \in DOMAIN runs :
        LET r == runs[d]
        IN  PublishFailed(r) =>
              /\ r.pc = "done"
              /\ \A e \in results : e.delivery # d
              /\ Succeeded(r) =>
                    /\ r.log[Len(r.log)] = ackOp
                    /\ CountOp(r, "ack") = 1 /\ CountOp(r, "nack") = 0
              /\ OnTerminalPath(r) =>
                    /\ r.log[Len(r.log)] = nackOp
                    /\ CountOp(r, "nack") = 1 /\ CountOp(r, "ack") = 0
              /\ Succeeded(r) \/ OnTerminalPath(r)

C11_Witness ==
    /\ \E d \in DOMAIN runs :
          /\ Succeeded(runs[d]) /\ PublishFailed(runs[d])
          /\ runs[d].log = <<emitOp("ImageProcessed", FALSE), ackOp>>
    /\ results = {}

\* no call to the broker has failed so far
NoBrokerFailure ==
    \A d \in DOMAIN runs : \A i \in DOMAIN runs[d].log : runs[d].log[i].ok

\* nothing is queued and every handler run has ended: no step of the
\* consumer is left for any job
Quiescent ==
    /\ runs # <<>>
    /\ \A p \in Partitions : queues[p] = <<>>
    /\ \A d \in DOMAIN runs : Finished(runs[d])

\* the outcome events on image.results over the whole chain of a job
OutcomesOf(job) == {e \in results : runs[e.delivery].msg.job = job}

\* the deliveries of a job that republished it
RepublishesOf(job) ==
    {d \in DOMAIN runs : runs[d].msg.job = job /\ runs[d].republished # NoMessage}

\* C12: over the chain of its deliveries a job never has more than one
\* outcome event on image.results nor more than MAX_RETRIES republishes, and
\* once the consumer has nothing left to do, with no broker call having
\* failed, every job has exactly one outcome event.
C12_OneOutcomePerJob ==
    /\ \A job \in 1..produced :
          /\ Cardinality(OutcomesOf(job)) <= 1
          /\ Cardinality(RepublishesOf(job)) <= MAX_RETRIES
    /\ (Quiescent /\ NoBrokerFailure) =>
          \A job \in 1..produced : Cardinality(OutcomesOf(job)) = 1

\* the broker could deliver the head of queue q now
CanDeliver(q) == queues[q] # <<>> /\ Len(runs) < MaxDeliveries

C14_PrefetchBound ==
    \A q \in Partitions :
        /\ Cardinality(Unacked(q)) <= PrefetchCount
        /\ (CanDeliver(q) /\ Cardinality(Unacked(q)) < PrefetchCount)
              => ENABLED Deliver(q)

C14_Witness ==
    \E d \in DOMAIN runs, e \in DOMAIN runs :
        /\ d < e
        /\ runs[d].queue # runs[e].queue
        /\ runs[d].pc = "rejected" /\ ~Settled(runs[d])
        /\ runs[e].pc = "done"

\* the settlements of the two promises withTimeout races, in order
Settlements ==
    SelectSeq(pipeline.events, LAMBDA e : e.ev \in {"returned", "thrown", "timer"})

Surfacings == SelectSeq(pipeline.events, LAMBDA e : e.ev = "surfaced")

\* C15: withTimeout settles with the first of pipeline and timer to settle:
\* with the pipeline's own result or error when the pipeline settled first,
\* with the PROCESSING_TIMEOUT error when the timer fired first, whether or
\* not the pipeline settles later; execute sees exactly that one outcome.
C15_FirstSettleWins ==
    /\ Settlements = <<>> =>
          pipeline.race = Pending /\ pipeline.handler = "awaiting"
    /\ Settlements # <<>> =>
          /\ Settlements[1].ev = "returned" =>
                pipeline.race = [outcome |-> "result", error |-> NoError]
          /\ Settlements[1].ev = "thrown" =>
                pipeline.race = [outcome |-> "error", error |-> pipeline.thrown]
          /\ Settlements[1].ev = "timer" =>
                pipeline.race = [outcome |-> "timeout", error |-> withTimeoutError]
    /\ Len(Surfacings) <= 1
    /\ \A i \in DOMAIN Surfacings : Surfacings[i].arg = pipeline.race.outcome
    /\ pipeline.handler = "returned" => pipeline.race.outcome = "result"
    /\ pipeline.handler = "caught" =>
          pipeline.error = execute_catch(pipeline.race.error)

C15_Witness ==
    /\ Len(Settlements) = 2
    /\ Settlements[1].ev = "timer" /\ Settlements[2].ev = "returned"
    /\ pipeline.handler = "caught"
    /\ pipeline.error.message = <<"PROCESSING_TIMEOUT">>

\* C16: once execute has seen the timeout, the timed-out pipeline starts no
\* further stage.
C16_NoStageAfterTimeout ==
    \A i \in DOMAIN pipeline.events, j \in DOMAIN pipeline.events :
        (i < j /\ pipeline.events[i] = Event("surfaced", "timeout"))
            => pipeline.events[j].ev # "start"

\* the error carries one of the rate-limit markers
CarriesRateLimitMarker(error) ==
    \/ includes(error.message, "RATE_LIMIT_EXCEEDED")
    \/ includes(error.message, "RESOURCE_EXHAUSTED")
    \/ includes(error.message, "429")
    \/ includes(error.message, "rate limit")

\* the consumer has classified the error the transform stage threw
ClassifiedTransformFault ==
    /\ pipeline.classified
    /\ pipeline.race.outcome = "error"
    /\ pipeline.failedStage = "gemini"

\* C17: a transform-stage fault carrying a rate-limit marker is classified
\* retryable at the consumer, and on the dead-letter branch (retries
\* exhausted) its error code is RATE_LIMIT_ERROR.
C17_RateLimitClassified ==
    (ClassifiedTransformFault /\ CarriesRateLimitMarker(pipeline.fault)) =>
        /\ pipeline.retryable
        /\ pipeline.route = "dead-letter" => pipeline.errorCode = "RATE_LIMIT_ERROR"

\* C18: a stage fault carrying none of the retry markers (the retryable list
\* of the consumer, the rate-limit markers) is classified non-retryable and
\* goes to the dead-letter branch at every retry count.
C18_UnmarkedFaultTerminal ==
    (/\ pipeline.classified
     /\ pipeline.race.outcome = "error"
     /\ ~isRetryableError(pipeline.fault)
     /\ ~CarriesRateLimitMarker(pipeline.fault)) =>
        /\ ~pipeline.retryable
        /\ pipeline.route = "dead-letter"

\* C20: once SIGTERM or SIGINT has been received, the broker makes no further
\* delivery to the worker: no handler run starts after the signal.
C20_NoDeliveryAfterSignal ==
    worker.signal # "none" => Len(runs) = worker.runsAtSignal

\* C21: after either signal nothing is closed before the drain wait of the
\* handler is over; the worker then closes the channel, then the connection,
\* and exits with code 0.
C21_GraceBeforeClose ==
    /\ worker.phase \in {"closing", "exited"} => worker.waited
    /\ worker.phase = "exited" =>
          /\ worker.closed = <<"channel", "connection">>
          /\ worker.exitCode = Some(0)

\* C22: connect makes at most maxRetries attempts; when all of them have
\* failed the consumer was never started, nothing was delivered and the
\* process has exited with code 1; the consumer is started, and deliveries
\* are made, only after an attempt succeeded.
C22_BoundedConnect ==
    /\ worker.attempts <= maxRetries
    /\ worker.retries <= maxRetries
    /\ worker.retries = maxRetries =>
          /\ ~worker.connected /\ ~worker.started
          /\ runs = <<>>
          /\ worker.phase = "exited" /\ worker.exitCode = Some(1)
    /\ worker.started => worker.connected
    /\ runs # <<>> => worker.started

C22_Witness ==
    /\ worker.attempts = maxRetries /\ worker.retries = maxRetries
    /\ worker.exitCode = Some(1)

\* C23: once an unhandled rejection (a handler's promise rejecting) has been
\* reported to the process, the process has logged fatal and exited with
\* code 1.
C23_UnhandledRejectionExits ==
    worker.unhandled # {} =>
        /\ worker.fatal
        /\ worker.phase = "exited" /\ worker.exitCode = Some(1)

\* a step of handler run d
RunStep(d) ==
    \/ \E succeeded \in BOOLEAN, e \in PipelineErrors : ExecuteSettle(d, succeeded, e)
    \/ \E ok \in BOOLEAN : PublishEventSettle(d, ok)
    \/ \E ok \in BOOLEAN : RequeueTimerFire(d, ok)
    \/ AckOriginal(d)

\* C24: a handler run that has not ended always has a step left (the
\* pipeline settles by its deadline, the backoff timer fires), and a run that
\* has ended with every broker call having gone through has issued an ack or
\* a nack.
C24_EveryRunSettles ==
    \A d \in DOMAIN runs :
        /\ ~Finished(runs[d]) => ENABLED RunStep(d)
        /\ (Finished(runs[d]) /\ \A i \in DOMAIN runs[d].log : runs[d].log[i].ok)
              => Settled(runs[d])

\* ---------------------------------------------------------------- C25
\* what the pipeline itself did, without what withTimeout and execute did
ByPipeline(e) == e.ev \notin {"timer", "surfaced"}
LoopEvents == SelectSeq(pipeline.events, ByPipeline)
GeminiStarts == Cardinality({i \in DOMAIN LoopEvents : LoopEvents[i] = Event("start", "gemini")})

\* C25: the loop around the transform re-attempts only after a retryable
\* fault, sleeping before each new attempt; it makes at most
\* MAX_RETRIES_gemini (5) retries, so at most 6 attempts; a fault that is not
\* retryable is rethrown at once, with no sleep and no further attempt, and
\* a retryable fault is rethrown only when the 5 retries are used up; the
\* error rethrown is the last one the transform threw
C25_InnerRetryLoop ==
    /\ pipeline.attempts <= MAX_RETRIES_gemini
    /\ GeminiStarts <= MAX_RETRIES_gemini + 1
    /\ Len(pipeline.sleeps) = pipeline.attempts
    /\ \A k \in DOMAIN pipeline.sleeps : pipeline.sleeps[k] = (2 ^ k) * 1000
    /\ \A i \in DOMAIN LoopEvents :
          /\ (LoopEvents[i].ev = "fault" /\ LoopEvents[i].arg # "true") =>
                (i < Len(LoopEvents) => LoopEvents[i + 1] = Event("thrown", "gemini"))
          /\ LoopEvents[i].ev = "sleep" =>
                /\ LoopEvents[i - 1] = Event("fault", "true")
                /\ i < Len(LoopEvents) => LoopEvents[i + 1] = Event("start", "gemini")
          /\ (LoopEvents[i] = Event("start", "gemini") /\ i > 2) =>
                LoopEvents[i - 1].ev = "sleep"
    /\ pipeline.failedStage = "gemini" =>
          /\ pipeline.thrown = pipeline.fault
          /\ LoopEvents[Len(LoopEvents) - 1] = Event("fault", pipeline.thrown.retryable)
          /\ pipeline.thrown.retryable = "true" => pipeline.attempts = MAX_RETRIES_gemini

\* the sixth attempt failed retryably and its error was rethrown
C25_Witness ==
    /\ pipeline.failedStage = "gemini"
    /\ pipeline.thrown.retryable = "true"
    /\ pipeline.attempts = MAX_RETRIES_gemini
    /\ GeminiStarts = MAX_RETRIES_gemini + 1

\* ---------------------------------------------------------------- C26
\* C26: a rate-limit fault of the transform backend is seen as retryable by
\* the loop around the transform: the pipeline rethrows it only after it has
\* slept and re-attempted the transform, MAX_RETRIES_gemini times
C26_RateLimitRetriedInside ==
    (pipeline.failedStage = "gemini" /\ isRateLimit(pipeline.fault)) =>
        /\ pipeline.thrown.retryable = "true"
        /\ pipeline.attempts = MAX_RETRIES_gemini
        /\ Len(pipeline.sleeps) = MAX_RETRIES_gemini

\* ---------------------------------------------------------------- C27
Recorded(phase) == pipeline.phases[phase] # Undefined

\* C27: the stages of a pipeline run are strictly sequential and the phase
\* timings only grow: the transform is awaited only with the fetch timing
\* recorded, the store only with the transform timing recorded, the
\* transform timing is recorded only after the fetch timing and the store
\* timing only after the transform timing, and no step removes or changes a
\* timing that is recorded
C27_TimingsGrowInOrder ==
    /\ [](/\ Recorded("gemini") => Recorded("download")
          /\ Recorded("cloudinary") => Recorded("gemini")
          /\ pipeline.stage = "download" => ~Recorded("download")
          /\ pipeline.stage = "gemini" => Recorded("download") /\ ~Recorded("gemini")
          /\ pipeline.stage = "cloudinary" => Recorded("gemini") /\ ~Recorded("cloudinary")
          /\ pipeline.stage = "returned" => Recorded("cloudinary"))
    /\ [][\A phase \in DOMAIN NoPhases :
            Recorded(phase) => pipeline.phases'[phase] = pipeline.phases[phase]]_vars

\* the three timings were recorded one after the other
C27_Witness ==
    /\ Len(pipeline.timings) = 3
    /\ pipeline.timings[1].phase = "download"
    /\ pipeline.timings[2].phase = "gemini"
    /\ pipeline.timings[3].phase = "cloudinary"
    /\ \A phase \in DOMAIN NoPhases : Recorded(phase)

\* ---------------------------------------------------------------- C28
\* the first phase, in the order download, gemini, cloudinary, with no timing
\* recorded in phases, "unknown" when the three are recorded
FirstUnrecorded(phases) ==
    IF phases.download = Undefined THEN "download"
    ELSE IF phases.gemini = Undefined THEN "gemini"
    ELSE IF phases.cloudinary = Undefined THEN "cloudinary"
    ELSE "unknown"

\* C28: when execute catches the failure of a pipeline run, the failure
\* phase it reads is the first phase in the order download, gemini,
\* cloudinary with no recorded timing, and "unknown" when all three are
\* recorded, also when a recorded timing is 0 ms
C28_FailurePhaseIsFirstUnrecorded ==
    pipeline.handler = "caught" =>
        pipeline.failurePhase = FirstUnrecorded(pipeline.phasesAtCatch)

\* ---------------------------------------------------------------- C29
\* C29: when the transform returns with no image in its response and no
\* error, the pipeline goes on: the bytes handed to the upload are the bytes
\* the download returned, the run does not fail at the transform, and when
\* execute returns its result the outcome is ImageProcessed
C29_PassThrough ==
    pipeline.geminiResult = "noimage" =>
        /\ pipeline.imageBuffer = "original"
        /\ pipeline.processedBuffer = Some(pipeline.imageBuffer)
        /\ pipeline.uploaded = Some(pipeline.imageBuffer)
        /\ pipeline.failedStage # "gemini"
        /\ pipeline.stage \in {"cloudinary", "returned", "thrown"}
        /\ pipeline.stage = "thrown" => pipeline.failedStage = "cloudinary"
        /\ pipeline.handler = "returned" => pipeline.route = "ImageProcessed"

\* no image came back, the original bytes were uploaded and execute returned
C29_Witness ==
    /\ pipeline.geminiResult = "noimage"
    /\ pipeline.uploaded = Some("original")
    /\ pipeline.handler = "returned"
    /\ pipeline.route = "ImageProcessed"

\* ---------------------------------------------------------------- C30
\* the sum of the timings written during the run
RECURSIVE SumTimings(_)
SumTimings(timings) ==
    IF timings = <<>> THEN 0
    ELSE Head(timings).ms + SumTimings(Tail(timings))

\* C30: whenever the pipeline returns a result, the three phase timings are
\* recorded, processedUrl is the secure_url the upload resolved with, and
\* processingTime is the sum of the three timings
C30_SuccessResult ==
    pipeline.stage = "returned" =>
        /\ \A phase \in DOMAIN NoPhases : pipeline.phases[phase] # Undefined
        /\ Len(pipeline.timings) = 3
        /\ pipeline.result # Undefined
        /\ ValueOf(pipeline.result).processedUrl = uploadResult.secure_url
        /\ ValueOf(pipeline.result).processedUrl # ""
        /\ ValueOf(pipeline.result).processingTime = SumTimings(pipeline.timings)

\* a result whose three timings are all positive
C30_Witness ==
    /\ pipeline.stage = "returned"
    /\ pipeline.result # Undefined
    /\ ValueOf(pipeline.result).processingTime = 3

\* ---------------------------------------------------------------- C31
\* the list index of the delay for the republish with new retry count n:
\* n, or the last index when n is past the end of the list
ClampedIndex(n, list) == IF n <= Len(list) THEN n ELSE Len(list)

\* C31: the delay computed for a failed delivery with retry count r, which
\* is republished with new retry count r + 1, is the configured
\* delays[(r + 1) - 1] (0-based) of the retry configuration, the
\* RETRY_DELAY_1/2/3 values, and the last configured delay past the end
C31_ConfiguredDelay ==
    backoff.delay # Undefined =>
        LET n == ValueOf(backoff.retryCount) + 1
        IN  ValueOf(backoff.delay) =
               config_retry.delays[ClampedIndex(n, config_retry.delays)]

\* ---------------------------------------------------------------- C32
\* C32: the delays are monotone non-decreasing in the retry index: the delay
\* computed for a delivery is not smaller than the delay of any smaller
\* retry index of the list and not greater than the delay of any greater one
C32_BackoffMonotone ==
    backoff.delay # Undefined =>
        \A k \in 0..(Len(delays) - 1) :
            /\ k < ValueOf(backoff.retryCount) =>
                  calculateBackoff(k) <= ValueOf(backoff.delay)
            /\ (ValueOf(backoff.retryCount) < k) =>
                  ValueOf(backoff.delay) <= calculateBackoff(k)

\* the second delay was computed by a worker whose RETRY_DELAY_1 is greater
\* than its RETRY_DELAY_2
C32_Witness ==
    /\ backoff.retryCount = Some(1)
    /\ backoff.delay = Some(15000)
    /\ backoff.env.RETRY_DELAY_1 = Some(60000)
    /\ backoff.env.RETRY_DELAY_2 = Some(1000)

\* ---------------------------------------------------------------- C33
\* C33: when the list has no delay for the retry index, the computed delay
\* is the fallback of 30000 ms; the computation always yields a positive
\* number of milliseconds, never an undefined delay
C33_FallbackDelay ==
    backoff.delay # Undefined =>
        /\ ValueOf(backoff.delay) > 0
        /\ (ValueOf(backoff.retryCount) + 1 \notin DOMAIN delays) =>
              ValueOf(backoff.delay) = FALLBACK_DELAY

\* a worker with MAX_RETRIES = 5 computed the delay of a delivery whose
\* retry count is past the end of the list
C33_Witness ==
    /\ backoff.env.MAX_RETRIES = Some(5)
    /\ backoff.retryCount = Some(4)
    /\ backoff.delay = Some(FALLBACK_DELAY)

\* ---------------------------------------------------------------- C34
\* C34: with a processing deadline of 0 ms (PROCESSING_TIMEOUT_MS = 0) the
\* run ends at once with PROCESSING_TIMEOUT: no time passes with the timer
\* of the deadline still armed, and no stage that takes time completes
\* before execute gets the timeout
C34_DeadlineZero ==
    backoff.env.PROCESSING_TIMEOUT_MS = Some(0) =>
        /\ pipeline.timer = "armed" => pipeline.clock = 0
        /\ pipeline.race.outcome = "result" => SumTimings(pipeline.timings) = 0

\* ---------------------------------------------------------------- C35
\* C35: when the error of a failed upload is what the handler dead-letters,
\* the error code of the image.failed event is CLOUDINARY_ERROR, and when it
\* is the error of a failed download the code is IMAGE_DOWNLOAD_ERROR
C35_StageErrorCodes ==
    (/\ pipeline.classified
     /\ pipeline.route = "dead-letter"
     /\ pipeline.race.outcome = "error") =>
        /\ pipeline.failedStage = "cloudinary" => pipeline.errorCode = "CLOUDINARY_ERROR"
        /\ pipeline.failedStage = "download" => pipeline.errorCode = "IMAGE_DOWNLOAD_ERROR"

\* ---------------------------------------------------------------- C36
\* delivery d2 is the delivery of the message run d1 republished
RedeliveryOf(d1, d2) ==
    /\ d1 < d2
    /\ runs[d1].republished # NoMessage
    /\ runs[d2].msg = ValueOf(runs[d1].republished).msg

\* C36: every message the consumer republishes carries an x-retry-count
\* between 1 and MAX_RETRIES, one more than the retry count of the delivery
\* that failed; the delivery of a republished message reads that count, and
\* a delivery whose retry count is MAX_RETRIES or more is not republished
C36_RetryCountBounded ==
    \A d \in DOMAIN runs :
        /\ runs[d].republished # NoMessage =>
              LET m == ValueOf(runs[d].republished).msg
              IN  /\ m.xretry = Some(runs[d].retryCount + 1)
                  /\ ValueOf(m.xretry) >= 1
                  /\ ValueOf(m.xretry) <= MAX_RETRIES
        /\ runs[d].retryCount >= MAX_RETRIES =>
              /\ runs[d].republished = NoMessage
              /\ CountOp(runs[d], "republish") = 0
        /\ \A d2 \in DOMAIN runs :
              RedeliveryOf(d, d2) =>
                  /\ runs[d2].retryCount = runs[d].retryCount + 1
                  /\ runs[d2].retryCount <= MAX_RETRIES

\* a delivery with retry count MAX_RETRIES - 1 was republished with
\* MAX_RETRIES, and the redelivery failed again and was dead-lettered
C36_Witness ==
    \E d1, d2 \in DOMAIN runs :
        /\ RedeliveryOf(d1, d2)
        /\ runs[d1].retryCount = MAX_RETRIES - 1
        /\ runs[d2].retryCount = MAX_RETRIES
        /\ CountOp(runs[d2], "nack") = 1
        /\ CountOp(runs[d2], "republish") = 0

\* ---------------------------------------------------------------- C37
\* the run has handed no outcome event (ImageProcessed, image.failed) to
\* #publishEvent
NoOutcomeYet(r) == r.emitted = <<>>

\* C37: a delivery that has produced no outcome is either still
\* unacknowledged at the broker or its republish has been published; while
\* the timer of #requeueWithDelay is pending the original is unacknowledged,
\* so there is no state with the original acked and the republish only a
\* pending timer
C37_HeldOrRepublished ==
    \A d \in DOMAIN runs :
        LET r == runs[d]
        IN  /\ NoOutcomeYet(r) => (~Settled(r) \/ r.republished # NoMessage)
            /\ r.pc = "backoff" =>
                  /\ r.log = <<>>
                  /\ r.republished = NoMessage
                  /\ d \in Unacked(r.queue)
            /\ (Settled(r) /\ r.republished # NoMessage) =>
                  ValueOf(r.republished).msg.job = r.msg.job

\* the timer of #requeueWithDelay is pending and the original is unacked
C37_Witness ==
    \E d \in DOMAIN runs :
        /\ runs[d].pc = "backoff"
        /\ runs[d].delay > 0
        /\ ~Settled(runs[d])
        /\ NoOutcomeYet(runs[d])

\* ---------------------------------------------------------------- C38
\* the positions of the log at which the run handed ImageProcessed to
\* #publishEvent
ProcessedAt(r) == {i \in DOMAIN r.log : r.log[i].op = "emit" /\ r.log[i].arg = "ImageProcessed"}

\* C38: no delivery produces both ImageProcessed and image.failed: once the
\* handler has emitted ImageProcessed for a delivery, nothing that follows in
\* the same run (the ack throwing included) emits image.failed, republishes
\* or nacks, and the run does not enter the retry or the dead-letter branch
C38_NoFailureAfterProcessed ==
    \A d \in DOMAIN runs :
        LET r == runs[d]
        IN  ProcessedAt(r) # {} =>
              /\ \A i \in ProcessedAt(r), j \in DOMAIN r.log :
                    j > i => ~(\/ r.log[j].op \in {"republish", "nack"}
                               \/ r.log[j] = throwOp("nack")
                               \/ (r.log[j].op = "emit" /\ r.log[j].arg = "image.failed"))
              /\ r.pc \notin {"publishing_failed", "backoff"}
              /\ \A k \in DOMAIN r.emitted : r.emitted[k].eventType = "ImageProcessed"

\* ---------------------------------------------------------------- C39
\* what the consumer's handler has decided for the delivery
HandlerOutcome ==
    [handler |-> pipeline.handler, error |-> pipeline.error,
     classified |-> pipeline.classified, route |-> pipeline.route,
     errorCode |-> pipeline.errorCode]

\* the pipeline completed (returned or threw) after execute saw the timeout
LateCompletion ==
    \E i, j \in DOMAIN pipeline.events :
        /\ i < j
        /\ pipeline.events[i] = Event("surfaced", "timeout")
        /\ pipeline.events[j].ev \in {"returned", "thrown"}

\* C39: once the deadline has fired first, the late completion of the
\* abandoned pipeline changes nothing for the handler: the race stays settled
\* with the timeout, execute surfaces PROCESSING_TIMEOUT and nothing else,
\* the delivery never takes the ImageProcessed path, and a step of the
\* abandoned pipeline leaves what the handler has decided as it is
C39_LateCompletionIgnored ==
    /\ [](pipeline.race.outcome = "timeout" =>
            /\ pipeline.handler \in {"awaiting", "caught"}
            /\ pipeline.route # "ImageProcessed"
            /\ pipeline.handler = "caught" =>
                  pipeline.error.message = <<"PROCESSING_TIMEOUT">>
            /\ \A i \in DOMAIN pipeline.events :
                  pipeline.events[i].ev = "surfaced" =>
                      pipeline.events[i] = Event("surfaced", "timeout"))
    /\ [][(pipeline.race.outcome = "timeout") =>
            /\ pipeline'.race = pipeline.race
            /\ (pipeline'.stage # pipeline.stage) => HandlerOutcome' = HandlerOutcome]_vars

\* the handler classified the timeout, and the pipeline returned afterwards
C39_Witness ==
    /\ LateCompletion
    /\ pipeline.classified
    /\ pipeline.stage = "returned"
    /\ pipeline.route \in {"republish", "dead-letter"}
    /\ pipeline.error.message = <<"PROCESSING_TIMEOUT">>

\* ---------------------------------------------------------------- C40
\* the loop around the transform used up its retries: the sixth attempt
\* failed retryably and its error was rethrown
CapExhausted ==
    /\ pipeline.failedStage = "gemini"
    /\ pipeline.thrown.retryable = "true"
    /\ pipeline.attempts = MAX_RETRIES_gemini

\* C40: with the default deadline of 60000 ms, a transform that keeps
\* failing retryably does not use up the retries of the inner loop before
\* the deadline: the sixth attempt starts only after the timer has fired, so
\* the race is settled by the timeout and execute ends with
\* PROCESSING_TIMEOUT, not with the rethrown transform error
C40_DeadlineBeforeCap ==
    backoff.env.PROCESSING_TIMEOUT_MS = Undefined =>
        /\ (Len(pipeline.sleeps) = MAX_RETRIES_gemini /\ pipeline.stage # "sleep") =>
              /\ pipeline.timer = "fired"
              /\ pipeline.race.outcome = "timeout"
        /\ CapExhausted =>
              /\ pipeline.race = [outcome |-> "timeout", error |-> withTimeoutError]
              /\ pipeline.handler = "caught" =>
                    pipeline.error.message = <<"PROCESSING_TIMEOUT">>

\* the retries were used up after the deadline and execute ended with the
\* timeout
C40_Witness ==
    /\ backoff.env.PROCESSING_TIMEOUT_MS = Undefined
    /\ CapExhausted
    /\ pipeline.sleeps = <<2000, 4000, 8000, 16000, 32000>>
    /\ pipeline.handler = "caught"
    /\ pipeline.error.message = <<"PROCESSING_TIMEOUT">>

====
